---- MODULE Spec2Model ----
(***************************************************************************)
(* A model of the API-call resilience core of lcw-fetch:                   *)
(*   - SimpleCache / APIResponseCache  (src/lcw_fetcher/utils/cache.py)    *)
(*   - CircuitBreaker / LCWClient._make_request                            *)
(*                                      (src/lcw_fetcher/api/client.py)    *)
(*   - DataScheduler                   (src/lcw_fetcher/scheduler.py)      *)
(*   - DataFetcher                     (src/lcw_fetcher/fetcher.py)        *)
(*   - InfluxDBClient connect / disconnect                                 *)
(*                          (src/lcw_fetcher/database/influx_client.py)    *)
(*                                                                         *)
(* The specifications share the variables:                                 *)
(*   SpecCache   - one SimpleCache driven by get / set / clear             *)
(*   SpecBreaker - one CircuitBreaker driven by can_execute /              *)
(*                 record_success / record_failure                         *)
(*   SpecClient  - one LCWClient (breaker 5/60) over the global api_cache  *)
(*   SpecScheduler, SpecSchedulerLive - the four jobs of DataScheduler on  *)
(*                 a pool of two workers, run_once and stop                *)
(*   SpecFetcher - fetch cycles of DataFetcher over one LCWClient          *)
(*   SpecCacheRace, SpecBreakerRace - two job threads stepping through     *)
(*                 one SimpleCache / one CircuitBreaker statement by       *)
(*                 statement                                               *)
(*   SpecClients - several LCWClient instances over the one api_cache      *)
(*   SpecFetcherObject - one DataFetcher (rate limit, database client)     *)
(*                 under the main thread and two job threads               *)
(*                                                                         *)
(* time.time() is the variable now.  It moves on a grid of Granularity     *)
(* seconds: every duration of the program (the breaker timeout 60, the     *)
(* TTLs 60..600, the cleanup period 60) is a multiple of it, so "exactly   *)
(* at the deadline" is a reachable instant.                                *)
(*                                                                         *)
(* The statistics counters (stats, hit_count) and CacheEntry.created_at are *)
(* written but read only for logging and reporting; they are left out.     *)
(***************************************************************************)
EXTENDS Integers, Sequences, FiniteSets, TLC

\* ------------------------------------------------------------------ bounds
\* seconds between two observable instants of the clock
Granularity == 30
\* number of clock steps a behaviour may take
MaxTicks == 3
\* largest SimpleCache.max_size tried in SpecCache
MaxCapacity == 2
\* number of get/set operations in SpecCache (the access stamps count them)
MaxOps == 4
\* largest CircuitBreaker.failure_threshold tried in SpecBreaker
MaxThreshold == 3
\* the failure counter is not incremented beyond this
MaxFailures == 6

\* --------------------------------------------------------------- constants
\* time.time() at the first instant of a behaviour
ClockStart == 0
\* SimpleCache.__init__ default_ttl
DefaultTtl == 300
\* period of the passive expiry sweep in SimpleCache.get
CleanupPeriod == 60
\* api_cache: SimpleCache(max_size=200, default_ttl=300)
ApiCacheMaxSize == 200
\* LCWClient: CircuitBreaker(failure_threshold=5, timeout=60)
ClientFailureThreshold == 5
ClientBreakerTimeout == 60

MaxTime == ClockStart + MaxTicks * Granularity

\* Python None, as a returned value / as a time
None == "None"
NoTime == -1
\* set(..., ttl=None)
NoTtl == -1

\* ------------------------------------------------------------ request keys
Endpoints == {"status", "credits", "coins/single", "coins/list", "exchanges/list", "overview"}

\* a payload dict, as the sequence of its items in insertion order
NoParams == << >>
BtcUsd == << <<"currency", "USD">>, <<"code", "BTC">> >>
UsdBtc == << <<"code", "BTC">>, <<"currency", "USD">> >>
Payloads == {NoParams, BtcUsd, UsdBtc}

\* string order of the parameter names, as sorted() sees them
ParamRank(name) ==
    CASE name = "code" -> 1 [] name = "currency" -> 2 [] name = "limit" -> 3
      [] name = "meta" -> 4 [] name = "offset" -> 5 [] name = "order" -> 6
      [] name = "sort" -> 7

\* tuple(sorted(params.items())): items in ascending order of their name
RECURSIVE SortedItems(_)
SortedItems(p) ==
    IF p = << >> THEN << >>
    ELSE LET i == CHOOSE i \in 1..Len(p) :
                     \A j \in 1..Len(p) : ParamRank(p[i][1]) <= ParamRank(p[j][1])
             rest == [j \in 1..(Len(p) - 1) |-> IF j < i THEN p[j] ELSE p[j + 1]]
         IN  <<p[i]>> \o SortedItems(rest)

\* APIResponseCache: cache_key = (endpoint, tuple(sorted(params.items())))
CacheKeyParts(endpoint, params) == <<endpoint, SortedItems(params)>>

\* SimpleCache._generate_key: md5 of str(key_parts); distinct key parts get
\* distinct digests
GenerateKey(key_parts) == <<"md5", key_parts>>

KeyParts == {CacheKeyParts(e, p) : e \in Endpoints, p \in Payloads}

\* the key parts SpecCache passes to get and set
DirectKeyParts == {CacheKeyParts("status", NoParams), CacheKeyParts("coins/single", NoParams),
                   CacheKeyParts("coins/single", BtcUsd)}

\* response bodies; "{}" is the empty (falsy) JSON object
Values == {"v1", "v2"}
EmptyData == "{}"
Truthy(d) == d # EmptyData /\ d # None

\* the value SpecCache stores with set
DirectValues == {"v1"}

\* ttl arguments of set(): NoTtl (None) selects default_ttl
TtlChoices == {NoTtl, 0, Granularity}

VARIABLES
    now,                \* time.time()
    max_size,           \* SimpleCache.max_size
    default_ttl,        \* SimpleCache.default_ttl
    cache,              \* SimpleCache._cache: digest -> CacheEntry
    access_order,       \* SimpleCache._access_order
    failure_threshold,  \* CircuitBreaker.failure_threshold
    timeout,            \* CircuitBreaker.timeout
    failure_count,      \* CircuitBreaker.failure_count
    last_failure_time,  \* CircuitBreaker.last_failure_time
    state,              \* CircuitBreaker.state
    enable_caching,     \* LCWClient.enable_caching
    accessed,           \* history: digest -> number of the operation that last accessed it
    ops,                \* history: number of get/set operations so far
    streak,             \* history: record_failure calls since the last record_success
    last,               \* history: the operation that ended last, with its result
    populated           \* history: digest -> the last success of a cacheable call

VARIABLES
    scheduler_running,  \* DataScheduler.scheduler.running
    instances,          \* the executor's count of submitted executions of each job
    queued,             \* executions of each job waiting for a thread of the pool
    running,            \* executions of each job whose handler is running
    once_pc,            \* where a caller of DataScheduler.run_once() is
    stop_pc,            \* where a caller of DataScheduler.stop() is
    fetcher_closed      \* DataFetcher.close() has been called

VARIABLES
    cycle,              \* a DataFetcher.run_full_fetch() call: its position and stats
    threads             \* the job threads calling into the shared cache or breaker

VARIABLES
    clients,            \* the LCWClient instances sharing api_cache: breaker and history
    fetcher             \* a DataFetcher: _last_request_time, the session, the db_client

\* the state of DataScheduler, of a DataFetcher cycle, and of concurrent callers
schedulerVars == <<scheduler_running, instances, queued, running, once_pc, stop_pc,
                   fetcher_closed>>
objectVars == <<clients, fetcher>>
fetcherVars == <<cycle, objectVars>>
raceVars == <<threads>>
laterVars == <<schedulerVars, fetcherVars, raceVars>>

vars == <<now, max_size, default_ttl, cache, access_order, failure_threshold, timeout,
          failure_count, last_failure_time, state, enable_caching, accessed, ops, streak, last,
          populated, schedulerVars, fetcherVars, raceVars>>

cacheVars == <<max_size, default_ttl, cache, access_order>>
breakerVars == <<failure_threshold, timeout, failure_count, last_failure_time, state>>
\* the cache, the breaker and their histories, but for the last operation
clientVars == <<now, cacheVars, breakerVars, enable_caching, accessed, ops, streak,
                populated>>

\* ------------------------------------------------------------- SimpleCache
EmptyCache == [k \in {} |-> None]

\* del d[k]
Del(d, k) == [x \in (DOMAIN d) \ {k} |-> d[x]]

InSeq(s, k) == \E i \in 1..Len(s) : s[i] = k

\* list.remove(k): removes the first occurrence only
ListRemove(s, k) ==
    IF ~InSeq(s, k) THEN s
    ELSE LET i == CHOOSE i \in 1..Len(s) : s[i] = k /\ \A j \in 1..(i - 1) : s[j] # k
         IN  [j \in 1..(Len(s) - 1) |-> IF j < i THEN s[j] ELSE s[j + 1]]

\* a variant of is_expired that expires the entry at the deadline itself
IsExpiredAtDeadline(entry, t) == t >= entry.expires_at

\* CacheEntry.is_expired at time t
IsExpired(entry, t) == t > entry.expires_at

\* a variant of _evict_lru that pops the entry but leaves it in the map
EvictLruKeepEntry(c, o) ==
    IF o = << >> THEN [cache |-> c, order |-> o, evicted |-> {}]
    ELSE [cache |-> c, order |-> Tail(o), evicted |-> {}]

\* SimpleCache._evict_lru
EvictLru(c, o) ==
    IF o = << >> THEN [cache |-> c, order |-> o, evicted |-> {}]
    ELSE LET lru_key == Head(o)
         IN  [cache   |-> IF lru_key \in DOMAIN c THEN Del(c, lru_key) ELSE c,
              order   |-> Tail(o),
              evicted |-> IF lru_key \in DOMAIN c THEN {lru_key} ELSE {}]

\* SimpleCache._cleanup_expired at time t
RECURSIVE RemoveAll(_, _)
RemoveAll(o, ks) ==
    IF ks = {} THEN o
    ELSE LET k == CHOOSE k \in ks : TRUE
         IN  RemoveAll(IF InSeq(o, k) THEN ListRemove(o, k) ELSE o, ks \ {k})

\* a variant of _cleanup_expired that forgets the access-order list
CleanupExpiredKeepOrder(c, o, t) ==
    LET expired_keys == {k \in DOMAIN c : c[k].expires_at < t}
    IN  [cache   |-> [k \in (DOMAIN c) \ expired_keys |-> c[k]],
         order   |-> o,
         cleaned |-> expired_keys]

CleanupExpired(c, o, t) ==
    LET expired_keys == {k \in DOMAIN c : c[k].expires_at < t}
    IN  [cache   |-> [k \in (DOMAIN c) \ expired_keys |-> c[k]],
         order   |-> RemoveAll(o, expired_keys),
         cleaned |-> expired_keys]

\* The sweep runs in get when the cache is non-empty and time.time() % 60 < 1
SweepDue(c, t) == Cardinality(DOMAIN c) > 0 /\ t % CleanupPeriod < 1

\* a variant of get that does not move a hit to the most-recently-used end
CacheGetNoTouch(c, o, key_parts, t) ==
    LET key   == GenerateKey(key_parts)
        swept == IF SweepDue(c, t) THEN CleanupExpired(c, o, t)
                 ELSE [cache |-> c, order |-> o, cleaned |-> {}]
        c1    == swept.cache
        o1    == swept.order
    IN  IF key \notin DOMAIN c1
        THEN [cache |-> c1, order |-> o1, ret |-> None, hit |-> FALSE,
              cleaned |-> swept.cleaned, expired |-> FALSE]
        ELSE IF IsExpired(c1[key], t)
        THEN [cache |-> Del(c1, key),
              order |-> IF InSeq(o1, key) THEN ListRemove(o1, key) ELSE o1,
              ret |-> None, hit |-> FALSE, cleaned |-> swept.cleaned, expired |-> TRUE]
        ELSE [cache |-> c1, order |-> o1,
              ret |-> c1[key].data, hit |-> TRUE, cleaned |-> swept.cleaned,
              expired |-> FALSE]

\* SimpleCache.get at time t: the new cache, the new order and the returned value
CacheGet(c, o, key_parts, t) ==
    LET key   == GenerateKey(key_parts)
        swept == IF SweepDue(c, t) THEN CleanupExpired(c, o, t)
                 ELSE [cache |-> c, order |-> o, cleaned |-> {}]
        c1    == swept.cache
        o1    == swept.order
    IN  IF key \notin DOMAIN c1
        THEN [cache |-> c1, order |-> o1, ret |-> None, hit |-> FALSE,
              cleaned |-> swept.cleaned, expired |-> FALSE]
        ELSE IF IsExpired(c1[key], t)
        THEN [cache |-> Del(c1, key),
              order |-> IF InSeq(o1, key) THEN ListRemove(o1, key) ELSE o1,
              ret |-> None, hit |-> FALSE, cleaned |-> swept.cleaned, expired |-> TRUE]
        ELSE [cache |-> c1,
              order |-> Append(IF InSeq(o1, key) THEN ListRemove(o1, key) ELSE o1, key),
              ret |-> c1[key].data, hit |-> TRUE, cleaned |-> swept.cleaned,
              expired |-> FALSE]

\* SimpleCache.set at time t: the new cache, the new order and what was evicted
CacheSet(c, o, ms, dttl, key_parts, value, ttl_arg, t) ==
    LET ttl   == IF ttl_arg = NoTtl THEN dttl ELSE ttl_arg
        key   == GenerateKey(key_parts)
        ev    == IF Cardinality(DOMAIN c) >= ms THEN EvictLru(c, o)
                 ELSE [cache |-> c, order |-> o, evicted |-> {}]
        entry == [data |-> value, expires_at |-> t + ttl]
        c1    == (key :> entry) @@ ev.cache
        o1    == Append(IF InSeq(ev.order, key) THEN ListRemove(ev.order, key)
                        ELSE ev.order, key)
    IN  [cache |-> c1, order |-> o1, evicted |-> ev.evicted]

\* ------------------------------------------------------ SpecCache: actions
\* the access stamps a of the entries stored in c
Stamps(a, c) == [k \in DOMAIN c |-> a[k]]

Get(key_parts) ==
    /\ ops < MaxOps
    /\ \E r \in {CacheGet(cache, access_order, key_parts, now)},
          key \in {GenerateKey(key_parts)} :
           /\ cache' = r.cache
           /\ access_order' = r.order
           /\ ops' = ops + 1
           /\ accessed' = Stamps(IF r.hit THEN (key :> (ops + 1)) @@ accessed ELSE accessed,
                                  r.cache)
           /\ last' = [op |-> "get", key |-> key, at |-> now, ret |-> r.ret,
                       cleaned |-> r.cleaned,
                       found |-> IF key \in DOMAIN cache THEN {cache[key]} ELSE {}]
    /\ UNCHANGED <<now, max_size, default_ttl, breakerVars, enable_caching, streak,
                   populated, laterVars>>

Set(key_parts, value, ttl_arg) ==
    /\ ops < MaxOps
    /\ \E r \in {CacheSet(cache, access_order, max_size, default_ttl,
                          key_parts, value, ttl_arg, now)},
          key \in {GenerateKey(key_parts)} :
           /\ cache' = r.cache
           /\ access_order' = r.order
           /\ ops' = ops + 1
           /\ accessed' = Stamps((key :> (ops + 1)) @@ accessed, r.cache)
           /\ last' = [op |-> "set", key |-> key, at |-> now, evicted |-> r.evicted,
                       value |-> value, ttl |-> ttl_arg,
                       fresh |-> key \notin DOMAIN cache,
                       oldest |-> {k \in DOMAIN cache :
                                     \A j \in DOMAIN cache : accessed[k] <= accessed[j]},
                       newest |-> {k \in DOMAIN cache :
                                     \A j \in DOMAIN cache : accessed[k] >= accessed[j]}]
    /\ UNCHANGED <<now, max_size, default_ttl, breakerVars, enable_caching, streak,
                   populated, laterVars>>

\* SimpleCache.clear
Clear ==
    /\ cache' = EmptyCache
    /\ access_order' = << >>
    /\ last' = [op |-> "clear"]
    /\ accessed' = EmptyCache
    /\ UNCHANGED <<now, max_size, default_ttl, breakerVars, enable_caching, ops, streak,
                   populated, laterVars>>

\* time passes
Tick ==
    /\ now + Granularity <= MaxTime
    /\ now' = now + Granularity
    /\ last' = [op |-> "tick"]
    /\ UNCHANGED <<cacheVars, breakerVars, enable_caching, accessed, ops, streak,
                   populated, laterVars>>

\* the jobs DataScheduler.start() registers
Jobs == {"frequent_fetch", "hourly_exchanges", "daily_historical", "weekly_full_sync"}

\* no run_full_fetch() call and no job thread
NoCycle == [pc |-> "none"]
NoThreads == << >>

\* a scheduler that was never started
IdleScheduler ==
    /\ scheduler_running = FALSE
    /\ instances = [j \in Jobs |-> 0]
    /\ queued = [j \in Jobs |-> 0]
    /\ running = [j \in Jobs |-> 0]
    /\ once_pc = "idle"
    /\ stop_pc = "idle"
    /\ fetcher_closed = FALSE

\* no LCWClient instances beside the modelled one, no DataFetcher object
IdleObjects ==
    /\ clients = << >>
    /\ fetcher = [pc |-> "none"]

\* the scheduler, the fetch cycle and the concurrent callers at rest
IdleLater ==
    /\ IdleScheduler
    /\ cycle = NoCycle
    /\ IdleObjects
    /\ threads = NoThreads

NoOp == [op |-> "init"]
NoStreak == [n |-> 0, at |-> NoTime]

InitCache ==
    /\ now = ClockStart
    /\ max_size \in 1..MaxCapacity
    /\ default_ttl = DefaultTtl
    /\ cache = EmptyCache
    /\ access_order = << >>
    /\ failure_threshold = ClientFailureThreshold
    /\ timeout = ClientBreakerTimeout
    /\ failure_count = 0
    /\ last_failure_time = NoTime
    /\ state = "closed"
    /\ enable_caching = TRUE
    /\ accessed = EmptyCache
    /\ ops = 0
    /\ streak = NoStreak
    /\ last = NoOp
    /\ populated = EmptyCache
    /\ IdleLater

NextCache ==
    \/ \E kp \in DirectKeyParts : Get(kp)
    \/ \E kp \in DirectKeyParts, v \in DirectValues, ttl \in TtlChoices : Set(kp, v, ttl)
    \/ Clear
    \/ Tick

SpecCache == InitCache /\ [][NextCache]_vars

\* ------------------------------------------------------- claims on the cache
StoredKeys == DOMAIN cache
OrderKeys == {access_order[i] : i \in 1..Len(access_order)}

\* C1: after every get, set and clear the number of stored entries is at most
\* max_size.
C1_CapacityInvariant == Cardinality(StoredKeys) <= max_size

\* a set at capacity has evicted an entry and the cache is full again
C1_Witness ==
    /\ last.op = "set"
    /\ last.evicted # {}
    /\ Cardinality(StoredKeys) = max_size

\* what set(key, value, ttl) at time t stores: it expires at t + ttl
SetStoresDeadline ==
    last.op = "set" =>
        /\ last.key \in StoredKeys
        /\ cache[last.key].data = last.value
        /\ cache[last.key].expires_at =
               last.at + (IF last.ttl = NoTtl THEN default_ttl ELSE last.ttl)

\* C2 as stated: a get of a stored key returns the value strictly before
\* expires_at = t + d and absent at or after it, the instant t + d included.
C2_Original ==
    (last.op = "get" /\ last.found # {}) =>
        \A e \in last.found :
            /\ last.at < e.expires_at => last.ret = e.data
            /\ last.at >= e.expires_at => last.ret = None

\* C2 amended: an entry stored by set at t with ttl d expires at t + d; a get of
\* its key returns the stored value at every time up to and including t + d,
\* and absent at every time strictly after t + d.
C2_TtlInclusiveDeadline ==
    /\ SetStoresDeadline
    /\ (last.op = "get" /\ last.found # {}) =>
           \A e \in last.found :
               /\ last.at <= e.expires_at => last.ret = e.data
               /\ last.at > e.expires_at => last.ret = None

\* a get exactly at the deadline of a stored entry, which returned its value
C2_Witness ==
    /\ last.op = "get"
    /\ \E e \in last.found : last.at = e.expires_at /\ last.ret = e.data /\ e.data # None

\* C3: when a set of a new key evicts, it evicts exactly the stored entry whose most
\* recent access (hit of get, or set) is the oldest; if other entries are stored, the
\* entry accessed last of all is not the one evicted.
C3_EvictsLeastRecentlyAccessed ==
    (last.op = "set" /\ last.fresh /\ last.evicted # {}) =>
        /\ last.evicted = last.oldest
        /\ Cardinality(last.evicted) = 1
        /\ last.newest # last.oldest => last.newest \cap last.evicted = {}

\* a set of a new key evicted one entry and kept another that a get had read after
\* the evicted one was last accessed
C3_Witness ==
    /\ last.op = "set"
    /\ last.fresh
    /\ last.evicted # {}
    /\ last.newest # last.oldest
    /\ last.newest \subseteq StoredKeys

\* C4: after every operation the keys of the entry map are exactly the keys of the
\* access-order list, and no key is twice in the list.
C4_OrderConsistent ==
    /\ StoredKeys = OrderKeys
    /\ Len(access_order) = Cardinality(OrderKeys)

\* a get ran the expiry sweep, which removed an entry and left another
C4_Witness ==
    /\ last.op = "get"
    /\ last.cleaned # {}
    /\ StoredKeys # {}

\* C25: a set of a key that is already stored evicts no other entry, the cache
\* being at capacity or not (dropping the key's own entry before storing it
\* again is not counted); a set of a new key that evicts, evicts exactly one.
C25_OverwriteDoesNotEvict ==
    last.op = "set" =>
        /\ ~last.fresh => last.evicted \subseteq {last.key}
        /\ (last.fresh /\ last.evicted # {}) => Cardinality(last.evicted) = 1

\* ---------------------------------------------------------- CircuitBreaker
\* a variant of can_execute that admits the probe at the deadline itself
BreakerCanExecuteAtDeadline(st, lft, to, t) ==
    IF st = "closed" THEN [ret |-> TRUE, state |-> st]
    ELSE IF st = "open"
    THEN IF t - lft >= to THEN [ret |-> TRUE, state |-> "half_open"]
         ELSE [ret |-> FALSE, state |-> st]
    ELSE [ret |-> TRUE, state |-> st]

\* CircuitBreaker.can_execute at time t: the returned value and the new state
BreakerCanExecute(st, lft, to, t) ==
    IF st = "closed" THEN [ret |-> TRUE, state |-> st]
    ELSE IF st = "open"
    THEN IF t - lft > to THEN [ret |-> TRUE, state |-> "half_open"]
         ELSE [ret |-> FALSE, state |-> st]
    ELSE [ret |-> TRUE, state |-> st]

\* CircuitBreaker.record_success
BreakerRecordSuccess == [failure_count |-> 0, state |-> "closed"]

\* a variant of record_failure that opens only above the threshold
BreakerRecordFailureLate(fc, st, thr, t) ==
    [failure_count     |-> fc + 1,
     last_failure_time |-> t,
     state             |-> IF fc + 1 > thr THEN "open" ELSE st]

\* a variant of record_failure that opens only on reaching the threshold exactly
BreakerRecordFailureExact(fc, st, thr, t) ==
    [failure_count     |-> fc + 1,
     last_failure_time |-> t,
     state             |-> IF fc + 1 = thr THEN "open" ELSE st]

\* CircuitBreaker.record_failure at time t
BreakerRecordFailure(fc, st, thr, t) ==
    [failure_count     |-> fc + 1,
     last_failure_time |-> t,
     state             |-> IF fc + 1 >= thr THEN "open" ELSE st]

\* ---------------------------------------------------- SpecBreaker: actions
CanExecute ==
    /\ LET r == BreakerCanExecute(state, last_failure_time, timeout, now)
       IN  /\ state' = r.state
           /\ last' = [op |-> "can_execute", at |-> now, ret |-> r.ret,
                       pre_state |-> state]
    /\ UNCHANGED <<now, cacheVars, failure_threshold, timeout, failure_count,
                   last_failure_time, enable_caching, accessed, ops, streak,
                   populated, laterVars>>

\* a variant of record_success that closes the breaker but keeps the count
RecordSuccessKeepsCount ==
    /\ state' = BreakerRecordSuccess.state
    /\ streak' = NoStreak
    /\ last' = [op |-> "record_success", at |-> now, pre_state |-> state]
    /\ UNCHANGED <<now, cacheVars, failure_threshold, timeout, failure_count,
                   last_failure_time, enable_caching, accessed, ops, populated, laterVars>>

RecordSuccess ==
    /\ failure_count' = BreakerRecordSuccess.failure_count
    /\ state' = BreakerRecordSuccess.state
    /\ streak' = NoStreak
    /\ last' = [op |-> "record_success", at |-> now, pre_state |-> state]
    /\ UNCHANGED <<now, cacheVars, failure_threshold, timeout, last_failure_time,
                   enable_caching, accessed, ops, populated, laterVars>>

RecordFailure ==
    /\ failure_count < MaxFailures
    /\ \E r \in {BreakerRecordFailure(failure_count, state, failure_threshold, now)} :
           /\ failure_count' = r.failure_count
           /\ last_failure_time' = r.last_failure_time
           /\ state' = r.state
    /\ streak' = [n |-> streak.n + 1, at |-> now]
    /\ last' = [op |-> "record_failure", at |-> now, pre_state |-> state]
    /\ UNCHANGED <<now, cacheVars, failure_threshold, timeout, enable_caching,
                   accessed, ops, populated, laterVars>>

\* timeouts tried in SpecBreaker
BreakerTimeouts == {0, Granularity, ClientBreakerTimeout}

InitBreaker ==
    /\ now = ClockStart
    /\ max_size = ApiCacheMaxSize
    /\ default_ttl = DefaultTtl
    /\ cache = EmptyCache
    /\ access_order = << >>
    /\ failure_threshold \in 1..MaxThreshold
    /\ timeout \in BreakerTimeouts
    /\ failure_count = 0
    /\ last_failure_time = NoTime
    /\ state = "closed"
    /\ enable_caching = TRUE
    /\ accessed = EmptyCache
    /\ ops = 0
    /\ streak = NoStreak
    /\ last = NoOp
    /\ populated = EmptyCache
    /\ IdleLater

NextBreaker ==
    \/ CanExecute
    \/ RecordSuccess
    \/ RecordFailure
    \/ Tick

SpecBreaker == InitBreaker /\ [][NextBreaker]_vars

\* ----------------------------------------------------- claims on the breaker
\* seconds since the last record_failure
SinceLastFailure == last.at - streak.at

\* C5: from Closed with failure count 0 and failure_threshold N, can_execute() is
\* true after fewer than N consecutive record_failure() calls, and false after the
\* N-th as long as the open duration has not elapsed.
C5_OpensAtThreshold ==
    last.op = "can_execute" =>
        /\ streak.n < failure_threshold => last.ret = TRUE
        /\ (streak.n = failure_threshold
              /\ (SinceLastFailure = 0 \/ SinceLastFailure < timeout)) => last.ret = FALSE

\* can_execute() has just refused, right after the N-th failure in a row, N >= 2
C5_Witness ==
    /\ last.op = "can_execute"
    /\ failure_threshold >= 2
    /\ streak.n = failure_threshold
    /\ SinceLastFailure = 0
    /\ last.ret = FALSE

\* C6 as stated: Open, T seconds open duration: can_execute() is false strictly
\* before T seconds after the last failure, and true (moving to HalfOpen) at or
\* after T, the instant T included.
C6_Original ==
    (last.op = "can_execute" /\ last.pre_state = "open") =>
        /\ SinceLastFailure < timeout => (last.ret = FALSE /\ state = "open")
        /\ SinceLastFailure >= timeout => (last.ret = TRUE /\ state = "half_open")

\* C6 amended: with the breaker Open and open duration T, can_execute() returns
\* false (and stays Open) at every time up to and including T after the last
\* failure, and returns true and moves to HalfOpen at every time strictly after T.
C6_ProbeAfterTimeout ==
    (last.op = "can_execute" /\ last.pre_state = "open") =>
        /\ SinceLastFailure <= timeout => (last.ret = FALSE /\ state = "open")
        /\ SinceLastFailure > timeout => (last.ret = TRUE /\ state = "half_open")

\* can_execute() refused exactly T > 0 seconds after the last failure
C6_Witness ==
    /\ last.op = "can_execute"
    /\ last.pre_state = "open"
    /\ timeout > 0
    /\ SinceLastFailure = timeout
    /\ last.ret = FALSE

\* C7: in HalfOpen, record_success() sets the failure count to 0 and the state to
\* Closed, and record_failure() sets the state to Open.
C7_HalfOpenRecovery ==
    /\ (last.op = "record_success" /\ last.pre_state = "half_open") =>
           (failure_count = 0 /\ state = "closed")
    /\ (last.op = "record_failure" /\ last.pre_state = "half_open") => state = "open"

\* a record_failure() in HalfOpen has reopened the breaker
C7_Witness ==
    /\ last.op = "record_failure"
    /\ last.pre_state = "half_open"
    /\ state = "open"

\* C30: in every state reached by sequential can_execute / record_success /
\* record_failure calls with failure_threshold >= 1, the breaker is closed exactly
\* when the failure count is below failure_threshold, and an open or half-open
\* breaker has a failure count of at least failure_threshold and a recorded
\* last-failure time.
C30_StateCountCoupling ==
    /\ state = "closed" <=> failure_count < failure_threshold
    /\ state \in {"open", "half_open"} =>
           (failure_count >= failure_threshold /\ last_failure_time # NoTime)

\* the breaker is half open again after a failed probe: the count is above the
\* threshold
C30_Witness ==
    /\ last.op = "can_execute"
    /\ state = "half_open"
    /\ failure_count > failure_threshold
    /\ last_failure_time # NoTime

\* ------------------------------------------------------- APIResponseCache
\* the characters of the endpoint names and of the ttl_config keys
Chars(name) ==
    CASE name = "status" -> <<"s", "t", "a", "t", "u", "s">>
      [] name = "coins/single" -> <<"c", "o", "i", "n", "s", "/", "s", "i", "n", "g", "l", "e">>
      [] name = "credits" -> <<"c", "r", "e", "d", "i", "t", "s">>
      [] name = "coins/list" -> <<"c", "o", "i", "n", "s", "/", "l", "i", "s", "t">>
      [] name = "exchanges/list" -> <<"e", "x", "c", "h", "a", "n", "g", "e", "s", "/", "l", "i", "s", "t">>
      [] name = "overview" -> <<"o", "v", "e", "r", "v", "i", "e", "w">>
      [] name = "api_status" -> <<"a", "p", "i", "_", "s", "t", "a", "t", "u", "s">>
      [] name = "api_credits" -> <<"a", "p", "i", "_", "c", "r", "e", "d", "i", "t", "s">>
      [] name = "coin_single" -> <<"c", "o", "i", "n", "_", "s", "i", "n", "g", "l", "e">>
      [] name = "coins_list" -> <<"c", "o", "i", "n", "s", "_", "l", "i", "s", "t">>
      [] name = "exchanges_list" -> <<"e", "x", "c", "h", "a", "n", "g", "e", "s", "_", "l", "i", "s", "t">>
      [] name = "market_overview" -> <<"m", "a", "r", "k", "e", "t", "_", "o", "v", "e", "r", "v", "i", "e", "w">>

\* Python's `key in endpoint` on strings
IsSubstring(k, e) ==
    \E i \in 0..(Len(e) - Len(k)) : \A j \in 1..Len(k) : e[i + j] = k[j]

\* APIResponseCache.ttl_config, in insertion order
TtlConfig ==
    << [key |-> "api_status", ttl |-> 120],
       [key |-> "api_credits", ttl |-> 300],
       [key |-> "coin_single", ttl |-> 60],
       [key |-> "coins_list", ttl |-> 90],
       [key |-> "exchanges_list", ttl |-> 600],
       [key |-> "market_overview", ttl |-> 300] >>

\* APIResponseCache.get_ttl_for_endpoint: the first configured key contained in
\* the endpoint decides, else the default of 300
GetTtlForEndpoint(endpoint) ==
    LET hits == {i \in 1..Len(TtlConfig) :
                    IsSubstring(Chars(TtlConfig[i].key), Chars(endpoint))}
    IN  IF hits = {} THEN DefaultTtl
        ELSE TtlConfig[CHOOSE i \in hits : \A j \in hits : i <= j].ttl

EndpointTtl == [e \in Endpoints |-> GetTtlForEndpoint(e)]

\* ------------------------------------------------- LCWClient._make_request
\* what session.post does: an HTTP response or a requests exception
Outcomes ==
    {[kind |-> "response", status |-> 200, data |-> d] : d \in Values \cup {EmptyData}}
    \cup {[kind |-> "response", status |-> st, data |-> None] : st \in {401, 404, 429, 500}}
    \cup {[kind |-> k, status |-> 0, data |-> None] :
             k \in {"Timeout", "ConnectionError", "RequestException"}}

NoOutcome == [kind |-> "not_sent", status |-> 0, data |-> None]

Raised(error, status) == [kind |-> "raised", error |-> error, status |-> status, data |-> None]
Returned(data) == [kind |-> "returned", error |-> None, status |-> 0, data |-> data]

\* a variant of the classification that counts every 4xx as a failure
ClassifyClientErrorAsFailure(outcome) ==
    IF outcome.kind # "response"
    THEN [result |-> Raised("LCWNetworkError", 0), failure |-> TRUE, success |-> FALSE]
    ELSE IF outcome.status = 401
    THEN [result |-> Raised("LCWAuthError", 401), failure |-> TRUE, success |-> FALSE]
    ELSE IF outcome.status = 429
    THEN [result |-> Raised("LCWRateLimitError", 429), failure |-> FALSE, success |-> FALSE]
    ELSE IF outcome.status >= 400
    THEN [result |-> Raised("LCWAPIError", outcome.status), failure |-> TRUE,
          success |-> FALSE]
    ELSE [result |-> Returned(outcome.data), failure |-> FALSE, success |-> TRUE]

\* a variant of the classification in which a 429 counts as a breaker failure
ClassifyPenalizingRateLimit(outcome) ==
    IF outcome.kind # "response"
    THEN [result |-> Raised("LCWNetworkError", 0), failure |-> TRUE, success |-> FALSE]
    ELSE IF outcome.status = 401
    THEN [result |-> Raised("LCWAuthError", 401), failure |-> TRUE, success |-> FALSE]
    ELSE IF outcome.status = 429
    THEN [result |-> Raised("LCWRateLimitError", 429), failure |-> TRUE, success |-> FALSE]
    ELSE IF outcome.status >= 500
    THEN [result |-> Raised("LCWAPIError", outcome.status), failure |-> TRUE,
          success |-> FALSE]
    ELSE IF outcome.status >= 400
    THEN [result |-> Raised("LCWAPIError", outcome.status), failure |-> FALSE,
          success |-> FALSE]
    ELSE [result |-> Returned(outcome.data), failure |-> FALSE, success |-> TRUE]

\* lines 130-197: the error raised or the data returned for an outcome of the
\* transport, and whether record_failure / record_success is called
Classify(outcome) ==
    IF outcome.kind # "response"
    THEN [result |-> Raised("LCWNetworkError", 0), failure |-> TRUE, success |-> FALSE]
    ELSE IF outcome.status = 401
    THEN [result |-> Raised("LCWAuthError", 401), failure |-> TRUE, success |-> FALSE]
    ELSE IF outcome.status = 429
    THEN [result |-> Raised("LCWRateLimitError", 429), failure |-> FALSE, success |-> FALSE]
    ELSE IF outcome.status >= 500
    THEN [result |-> Raised("LCWAPIError", outcome.status), failure |-> TRUE,
          success |-> FALSE]
    ELSE IF outcome.status >= 400
    THEN [result |-> Raised("LCWAPIError", outcome.status), failure |-> FALSE,
          success |-> FALSE]
    ELSE [result |-> Returned(outcome.data), failure |-> FALSE, success |-> TRUE]

\* a variant of the gate that lets the call through whatever can_execute says
GateIgnoringBreaker(st, lft, to, t) ==
    [admitted |-> TRUE, state |-> BreakerCanExecute(st, lft, to, t).state]

\* lines 121-125: the call goes on only if circuit_breaker.can_execute()
Gate(st, lft, to, t) ==
    LET r == BreakerCanExecute(st, lft, to, t)
    IN  [admitted |-> r.ret, state |-> r.state]

\* a variant of the lookup that asks the breaker before the cache
LookupBehindBreaker(caching, use_cache, c, o, endpoint, payload, st, lft, to, t) ==
    IF caching /\ use_cache /\ BreakerCanExecute(st, lft, to, t).ret
    THEN CacheGet(c, o, CacheKeyParts(endpoint, payload), t)
    ELSE [cache |-> c, order |-> o, ret |-> None, hit |-> FALSE, cleaned |-> {},
          expired |-> FALSE]

\* lines 114-119: the cache is tried first if caching is enabled
Lookup(caching, use_cache, c, o, endpoint, payload, st, lft, to, t) ==
    IF caching /\ use_cache
    THEN CacheGet(c, o, CacheKeyParts(endpoint, payload), t)
    ELSE [cache |-> c, order |-> o, ret |-> None, hit |-> FALSE, cleaned |-> {},
          expired |-> FALSE]

\* lines 130-197, once the breaker has admitted the call: the transport is
\* invoked, the outcome classified, the breaker told, a success cached
Attempt(caching, looked, gate, cl, ms, dttl, fc, lft, thr, endpoint, payload, use_cache, t) ==
    LET b  == IF cl.failure
              THEN BreakerRecordFailure(fc, gate.state, thr, t)
              ELSE IF cl.success
              THEN [failure_count |-> BreakerRecordSuccess.failure_count,
                    last_failure_time |-> lft,
                    state |-> BreakerRecordSuccess.state]
              ELSE [failure_count |-> fc, last_failure_time |-> lft, state |-> gate.state]
        stored == IF cl.success /\ caching /\ use_cache /\ Truthy(cl.result.data)
                  THEN CacheSet(looked.cache, looked.order, ms, dttl,
                                CacheKeyParts(endpoint, payload), cl.result.data,
                                EndpointTtl[endpoint], t)
                  ELSE [cache |-> looked.cache, order |-> looked.order, evicted |-> {}]
    IN  [cache |-> stored.cache, order |-> stored.order, breaker |-> b,
         result |-> cl.result, cache_hit |-> FALSE, consulted |-> TRUE, sent |-> TRUE]

\* lines 121-197, after a cache miss: fail fast if the breaker refuses
Guarded(caching, looked, gate, ms, dttl, fc, lft, thr, endpoint, payload, use_cache, outcome, t) ==
    IF ~gate.admitted
    THEN [cache |-> looked.cache, order |-> looked.order,
          breaker |-> [failure_count |-> fc, last_failure_time |-> lft,
                       state |-> gate.state],
          result |-> Raised("LCWAPIError", 503), cache_hit |-> FALSE,
          consulted |-> TRUE, sent |-> FALSE]
    ELSE Attempt(caching, looked, gate, Classify(outcome), ms, dttl, fc, lft, thr,
                 endpoint, payload, use_cache, t)

\* lines 114-197, after the cache lookup: a hit is returned at once
Served(caching, looked, ms, dttl, fc, lft, st, thr, to, endpoint, payload, use_cache, outcome, t) ==
    IF looked.ret # None
    THEN [cache |-> looked.cache, order |-> looked.order,
          breaker |-> [failure_count |-> fc, last_failure_time |-> lft, state |-> st],
          result |-> Returned(looked.ret), cache_hit |-> TRUE, consulted |-> FALSE,
          sent |-> FALSE]
    ELSE Guarded(caching, looked, Gate(st, lft, to, t), ms, dttl, fc, lft, thr,
                 endpoint, payload, use_cache, outcome, t)

\* LCWClient._make_request(endpoint, payload, use_cache) at time t, the transport
\* behaving as outcome: the new cache, the new breaker, what the call returns
\* or raises, and what it did on the way
ClientMakeRequest(caching, c, o, ms, dttl, fc, lft, st, thr, to, endpoint, payload, use_cache, outcome, t) ==
    Served(caching, Lookup(caching, use_cache, c, o, endpoint, payload, st, lft, to, t),
           ms, dttl, fc, lft, st, thr, to, endpoint, payload, use_cache, outcome, t)

\* ----------------------------------------------------- SpecClient: actions
MakeRequest(endpoint, payload, use_cache, outcome) ==
    \E r \in {ClientMakeRequest(enable_caching, cache, access_order, max_size, default_ttl,
                                failure_count, last_failure_time, state,
                                failure_threshold, timeout,
                                endpoint, payload, use_cache, outcome, now)},
       key \in {GenerateKey(CacheKeyParts(endpoint, payload))} :
        /\ r.breaker.failure_count <= MaxFailures
        /\ cache' = r.cache
        /\ access_order' = r.order
        /\ failure_count' = r.breaker.failure_count
        /\ last_failure_time' = r.breaker.last_failure_time
        /\ state' = r.breaker.state
        /\ last' = [op |-> "request", at |-> now, key |-> key,
                    cacheable |-> enable_caching /\ use_cache,
                    outcome |-> outcome,
                    result |-> r.result, cache_hit |-> r.cache_hit,
                    consulted |-> r.consulted, sent |-> r.sent,
                    found |-> IF key \in DOMAIN cache THEN {cache[key]} ELSE {},
                    pre_state |-> state, pre_count |-> failure_count,
                    pre_lft |-> last_failure_time,
                    prior |-> IF key \in DOMAIN populated THEN {populated[key]} ELSE {}]
        /\ populated' = IF enable_caching /\ use_cache /\ r.sent /\ r.result.kind = "returned"
                        THEN (key :> [data |-> r.result.data,
                                      until |-> now + EndpointTtl[endpoint]]) @@ populated
                        ELSE populated
        /\ UNCHANGED <<now, max_size, default_ttl, failure_threshold, timeout,
                       enable_caching, accessed, ops, streak, laterVars>>

\* the transport produces an outcome only in a call that reaches session.post
TransportOutcomes(endpoint, payload, use_cache) ==
    IF ClientMakeRequest(enable_caching, cache, access_order, max_size, default_ttl,
                         failure_count, last_failure_time, state,
                         failure_threshold, timeout,
                         endpoint, payload, use_cache, NoOutcome, now).sent
    THEN Outcomes ELSE {NoOutcome}

\* use_cache as the callers pass it: every caller of _make_request leaves the
\* default
UseCacheChoices == {TRUE}

\* the calls SpecClient makes
ClientCalls == {<<"status", NoParams>>, <<"coins/single", BtcUsd>>}

InitClient ==
    /\ now = ClockStart
    /\ max_size = ApiCacheMaxSize
    /\ default_ttl = DefaultTtl
    /\ cache = EmptyCache
    /\ access_order = << >>
    /\ failure_threshold = ClientFailureThreshold
    /\ timeout = ClientBreakerTimeout
    /\ failure_count = 0
    /\ last_failure_time = NoTime
    /\ state = "closed"
    /\ enable_caching \in BOOLEAN
    /\ accessed = EmptyCache
    /\ ops = 0
    /\ streak = NoStreak
    /\ last = NoOp
    /\ populated = EmptyCache
    /\ IdleLater

NextClient ==
    \/ \E call \in ClientCalls, use_cache \in UseCacheChoices :
          \E outcome \in TransportOutcomes(call[1], call[2], use_cache) :
              MakeRequest(call[1], call[2], use_cache, outcome)
    \/ Tick

SpecClient == InitClient /\ [][NextClient]_vars

\* ------------------------------------------------------ claims on the client
BreakerUntouched ==
    /\ state = last.pre_state
    /\ failure_count = last.pre_count
    /\ last_failure_time = last.pre_lft

\* C8: a call whose outcome is HTTP 429 raises the rate-limit error, does not
\* increment the failure count and does not move the breaker to Open.
C8_RateLimitNotPenalized ==
    (last.op = "request" /\ last.sent /\ last.outcome.kind = "response"
        /\ last.outcome.status = 429) =>
        /\ last.result = Raised("LCWRateLimitError", 429)
        /\ failure_count = last.pre_count
        /\ state # "open"

\* a 429 answered a call made one failure short of the threshold, and the breaker
\* is still closed
C8_Witness ==
    /\ last.op = "request"
    /\ last.sent
    /\ last.outcome.status = 429
    /\ last.pre_count = failure_threshold - 1
    /\ state = "closed"

\* C9: a call that gets nothing from the cache while can_execute() is false fails
\* with LCWAPIError 503, does not invoke the transport, and leaves the breaker's
\* state, failure count and last-failure time as they were.
C9_FailFastWhenOpen ==
    (last.op = "request" /\ ~last.cache_hit
        /\ ~BreakerCanExecute(last.pre_state, last.pre_lft, timeout, last.at).ret) =>
        /\ last.result = Raised("LCWAPIError", 503)
        /\ ~last.sent
        /\ BreakerUntouched

\* a cacheable call missed the cache and was refused by the open breaker
C9_Witness ==
    /\ last.op = "request"
    /\ last.cacheable
    /\ ~last.cache_hit
    /\ last.pre_state = "open"
    /\ last.result = Raised("LCWAPIError", 503)
    /\ ~last.sent

\* C10: a cacheable call that finds an unexpired entry for (endpoint, params)
\* returns its value, does not invoke the transport, does not call can_execute()
\* and leaves the breaker as it was, whatever the breaker's state.
C10_CacheHitBypassesBreaker ==
    (last.op = "request" /\ last.cacheable) =>
        \A e \in last.found :
            ~IsExpired(e, last.at) =>
                /\ last.result = Returned(e.data)
                /\ last.cache_hit
                /\ ~last.sent
                /\ ~last.consulted
                /\ BreakerUntouched

\* a call was answered from the cache while the breaker was open and would have
\* refused it
C10_Witness ==
    /\ last.op = "request"
    /\ last.cache_hit
    /\ last.found # {}
    /\ last.pre_state = "open"
    /\ ~BreakerCanExecute(last.pre_state, last.pre_lft, timeout, last.at).ret
    /\ state = "open"

\* C11: after a cacheable call that the transport answered with success, whatever
\* the payload, an identical call made before the time to live has run out does
\* not invoke the transport and returns the same payload.  (The cache of the
\* client holds 200 entries and is never cleared here, so nothing is evicted
\* between the two calls.)
C11_SuccessPopulatesCache ==
    (last.op = "request" /\ last.cacheable) =>
        \A p \in last.prior :
            last.at < p.until =>
                /\ ~last.sent
                /\ last.result = Returned(p.data)

\* the classes of outcome the transport can produce
IsTransportFailure == last.outcome.kind # "response"
IsServerError == last.outcome.kind = "response" /\ last.outcome.status >= 500
IsUnauthorized == last.outcome.kind = "response" /\ last.outcome.status = 401
IsRateLimited == last.outcome.kind = "response" /\ last.outcome.status = 429
IsOtherClientError ==
    /\ last.outcome.kind = "response"
    /\ last.outcome.status >= 400
    /\ last.outcome.status < 500
    /\ last.outcome.status \notin {401, 429}
IsSuccess == last.outcome.kind = "response" /\ last.outcome.status < 400

\* the error each class of outcome raises
RaisesClassifiedError ==
    /\ IsUnauthorized => last.result = Raised("LCWAuthError", 401)
    /\ IsRateLimited => last.result = Raised("LCWRateLimitError", 429)
    /\ (IsOtherClientError \/ IsServerError) =>
           last.result = Raised("LCWAPIError", last.outcome.status)
    /\ IsTransportFailure => last.result = Raised("LCWNetworkError", 0)

\* the count after a failure and after a success
CountsFailuresAndSuccesses ==
    /\ (IsUnauthorized \/ IsServerError \/ IsTransportFailure) =>
           failure_count = last.pre_count + 1
    /\ IsSuccess => (failure_count = 0 /\ state = "closed")

OperationTtl ==
    [e \in Endpoints |->
        CASE e = "status" -> 120
          [] e = "credits" -> 300
          [] e = "coins/single" -> 60
          [] e = "coins/list" -> 90
          [] e = "exchanges/list" -> 600
          [] e = "overview" -> 300]

\* the endpoint of the last request, read from its cache key
LastEndpoint == last.key[2][1]

\* C24: a response that a call caches is stored with the time to live of its
\* logical operation: the entry expires OperationTtl seconds after the call
\* (status 120, single coin 60, ...), so an exchange list is kept longer than a
\* single coin.
C24_PerOperationTtl ==
    (/\ last.op = "request"
     /\ last.sent
     /\ last.result.kind = "returned"
     /\ last.key \in DOMAIN cache) =>
        /\ cache[last.key].expires_at = last.at + OperationTtl[LastEndpoint]
        /\ EndpointTtl["exchanges/list"] > EndpointTtl["coins/single"]

\* C26: a call that can_execute() admitted in the half-open state (the breaker
\* was half open, or open with its timeout over) and that reached the transport
\* leaves the breaker closed if it succeeded and open if it did not, whatever
\* the outcome was; the breaker is never still half open after it.
C26_HalfOpenIsLeft ==
    (/\ last.op = "request"
     /\ last.sent
     /\ BreakerCanExecute(last.pre_state, last.pre_lft, timeout, last.at).state = "half_open") =>
        /\ state # "half_open"
        /\ IsSuccess => state = "closed"
        /\ ~IsSuccess => state = "open"

\* ------------------------------------------------------------ DataScheduler
\* ThreadPoolExecutor(max_workers=2)
MaxWorkers == 2

\* a variant of the registration that allows two instances of each job
JobMaxInstancesTwo == [j \in Jobs |-> 2]

\* add_frequent_fetch_job, add_hourly_exchange_fetch, add_daily_historical_fetch,
\* add_weekly_full_sync: every job is added with max_instances=1
JobMaxInstances == [j \in Jobs |-> 1]

\* the executor accepts an execution of a job only below the job's max_instances
CanSubmit(inst, j) == inst[j] < JobMaxInstances[j]

\* handlers running on the threads of the pool
Busy(r) == r["frequent_fetch"] + r["hourly_exchanges"] + r["daily_historical"] + r["weekly_full_sync"]

\* a variant of the listener that shuts the scheduler down when a job crashed
JobListenerStopsOnError(exception, is_running) ==
    [logged |-> TRUE, scheduler_running |-> IF exception THEN FALSE ELSE is_running]

\* job_listener: logs the crash or the success of a job, and nothing else
JobListener(exception, is_running) ==
    [logged |-> TRUE, scheduler_running |-> is_running]

\* DataScheduler.start(): the jobs are registered and the scheduler runs
Start ==
    /\ ~scheduler_running
    /\ stop_pc = "idle"
    /\ scheduler_running' = TRUE
    /\ last' = [op |-> "start"]
    /\ UNCHANGED <<clientVars, instances, queued, running, once_pc, stop_pc,
                   fetcher_closed, fetcherVars, raceVars>>

\* the trigger of job j fires: the execution is submitted to the pool, or
\* skipped when the job has max_instances executions already
Fire(j) ==
    /\ scheduler_running
    /\ IF CanSubmit(instances, j)
       THEN /\ instances' = [instances EXCEPT ![j] = @ + 1]
            /\ queued' = [queued EXCEPT ![j] = @ + 1]
       ELSE UNCHANGED <<instances, queued>>
    /\ last' = [op |-> "fire", job |-> j, busy |-> instances[j] > 0,
                submitted |-> CanSubmit(instances, j)]
    /\ UNCHANGED <<clientVars, scheduler_running, running, once_pc, stop_pc,
                   fetcher_closed, fetcherVars, raceVars>>

\* a free thread of the pool takes a submitted execution and enters its wrapper
WorkerPicks(j) ==
    /\ queued[j] > 0
    /\ Busy(running) < MaxWorkers
    /\ queued' = [queued EXCEPT ![j] = @ - 1]
    /\ running' = [running EXCEPT ![j] = @ + 1]
    /\ last' = [op |-> "job_started", job |-> j]
    /\ UNCHANGED <<clientVars, scheduler_running, instances, once_pc, stop_pc,
                   fetcher_closed, fetcherVars, raceVars>>

\* the wrapper of job j ends: normally, or by logging and re-raising what the
\* handler raised; the executor releases the instance and the listener is told
HandlerEnds(j, exception) ==
    /\ running[j] > 0
    /\ running' = [running EXCEPT ![j] = @ - 1]
    /\ instances' = [instances EXCEPT ![j] = @ - 1]
    /\ \E l \in {JobListener(exception, scheduler_running)} :
          /\ scheduler_running' = l.scheduler_running
          /\ last' = [op |-> IF exception THEN "job_error" ELSE "job_executed",
                      job |-> j, logged |-> l.logged,
                      pre_running |-> scheduler_running]
    /\ UNCHANGED <<clientVars, queued, once_pc, stop_pc, fetcher_closed,
                   fetcherVars, raceVars>>

\* DataScheduler.run_once() is called and enters the fetch cycle on self.fetcher
RunOnceBegins ==
    /\ once_pc = "idle"
    /\ once_pc' = "fetching"
    /\ last' = [op |-> "run_once_called"]
    /\ UNCHANGED <<clientVars, scheduler_running, instances, queued, running, stop_pc,
                   fetcher_closed, fetcherVars, raceVars>>

\* the fetch cycle of run_once() returns its stats or raises; run_once logs,
\* and re-raises what was raised
RunOnceEnds(exception) ==
    /\ once_pc = "fetching"
    /\ once_pc' = "idle"
    /\ last' = [op |-> "run_once_ended", raised |-> exception]
    /\ UNCHANGED <<clientVars, scheduler_running, instances, queued, running, stop_pc,
                   fetcher_closed, fetcherVars, raceVars>>

\* DataScheduler.stop() is called: a running scheduler is shut down with wait=True
StopCalled ==
    /\ stop_pc = "idle"
    /\ stop_pc' = IF scheduler_running THEN "shutdown" ELSE "close"
    /\ scheduler_running' = FALSE
    /\ last' = [op |-> "stop_called"]
    /\ UNCHANGED <<clientVars, instances, queued, running, once_pc, fetcher_closed,
                   fetcherVars, raceVars>>

\* shutdown(wait=True) returns once every submitted execution has ended
ShutdownReturns ==
    /\ stop_pc = "shutdown"
    /\ \A j \in Jobs : queued[j] = 0 /\ running[j] = 0
    /\ stop_pc' = "close"
    /\ last' = [op |-> "shutdown_returned"]
    /\ UNCHANGED <<clientVars, scheduler_running, instances, queued, running, once_pc,
                   fetcher_closed, fetcherVars, raceVars>>

\* stop() closes the fetcher and returns
StopReturns ==
    /\ stop_pc = "close"
    /\ fetcher_closed' = TRUE
    /\ stop_pc' = "returned"
    /\ last' = [op |-> "stop_returned"]
    /\ UNCHANGED <<clientVars, scheduler_running, instances, queued, running, once_pc,
                   fetcherVars, raceVars>>

InitScheduler ==
    /\ now = ClockStart
    /\ max_size = ApiCacheMaxSize
    /\ default_ttl = DefaultTtl
    /\ cache = EmptyCache
    /\ access_order = << >>
    /\ failure_threshold = ClientFailureThreshold
    /\ timeout = ClientBreakerTimeout
    /\ failure_count = 0
    /\ last_failure_time = NoTime
    /\ state = "closed"
    /\ enable_caching = TRUE
    /\ accessed = EmptyCache
    /\ ops = 0
    /\ streak = NoStreak
    /\ last = NoOp
    /\ populated = EmptyCache
    /\ IdleScheduler
    /\ cycle = NoCycle
    /\ IdleObjects
    /\ threads = NoThreads

NextScheduler ==
    \/ Start
    \/ \E j \in Jobs : Fire(j)
    \/ \E j \in Jobs : WorkerPicks(j)
    \/ \E j \in Jobs, exception \in BOOLEAN : HandlerEnds(j, exception)
    \/ RunOnceBegins
    \/ \E exception \in BOOLEAN : RunOnceEnds(exception)
    \/ StopCalled
    \/ ShutdownReturns
    \/ StopReturns

SpecScheduler == InitScheduler /\ [][NextScheduler]_vars

\* stop() runs on the thread that called it and the pool starts what it has
\* accepted; nothing makes a handler end
SpecSchedulerLive ==
    /\ SpecScheduler
    /\ WF_vars(ShutdownReturns)
    /\ WF_vars(StopReturns)
    /\ \A j \in Jobs : WF_vars(WorkerPicks(j))

\* ---------------------------------------------------- claims on the scheduler
\* C13: a fire event of a job that has an execution submitted or running starts
\* no second execution, and no job ever has more than one handler running.
C13_AtMostOneInstance ==
    /\ \A j \in Jobs : queued[j] + running[j] <= 1
    /\ (last.op = "fire" /\ last.busy) =>
           (~last.submitted /\ queued[last.job] + running[last.job] = 1)

\* frequent_fetch fired while its previous execution was still running
C13_Witness ==
    /\ last.op = "fire"
    /\ last.job = "frequent_fetch"
    /\ last.busy
    /\ running["frequent_fetch"] = 1

C15_SurvivesHandlerFailure ==
    (last.op = "job_error") =>
        /\ last.logged
        /\ queued[last.job] + running[last.job] = 0
        /\ scheduler_running = last.pre_running
        /\ CanSubmit(instances, last.job)

\* a handler crashed under a running scheduler, which can dispatch the job again
C15_Witness ==
    /\ last.op = "job_error"
    /\ last.pre_running
    /\ scheduler_running
    /\ stop_pc = "idle"
    /\ CanSubmit(instances, last.job)

\* C16: once stop() waits for the handlers it always eventually returns, with the
\* fetcher closed, even when a handler never ends.
C16_BoundedShutdown ==
    (stop_pc = "shutdown") ~> (stop_pc = "returned" /\ fetcher_closed)

\* -------------------------------------------------------------- DataFetcher
\* number of run_full_fetch() calls in a behaviour of SpecFetcher
MaxCycles == 2

\* time.sleep(60) after a rate-limit error
BackoffSleep == 60

\* Config.get_tracked_coins() with TRACKED_COINS=BTC
TrackedCoins == <<"BTC">>

\* the payloads of get_coin_single(code, meta=True) and of the list operations
CoinPayload(code) == << <<"currency", "USD">>, <<"code", code>>, <<"meta", "True">> >>
ListPayload(sort, order, limit, meta) == << <<"currency", "USD">>, <<"sort", sort>>, <<"order", order>>, <<"offset", "0">>, <<"limit", limit>>, <<"meta", meta>> >>
OverviewPayload == << <<"currency", "USD">> >>

\* what the transport answers in SpecFetcher: a body, a rate limit, a timeout
FetchOutcomes ==
    { [kind |-> "response", status |-> 200, data |-> "v1"],
      [kind |-> "response", status |-> 429, data |-> None],
      [kind |-> "Timeout", status |-> 0, data |-> None] }

\* the stats run_full_fetch() starts with
ZeroStats ==
    [coins_fetched |-> 0, coins_stored |-> 0, exchanges_fetched |-> 0,
     exchanges_stored |-> 0, markets_fetched |-> 0, markets_stored |-> 0, errors |-> 0]

\* a DataFetcher between two cycles, n cycles begun
RestingCycle(n) ==
    [pc |-> "idle", n |-> n, i |-> 1, coins |-> 0, stats |-> ZeroStats,
     status_ok |-> FALSE, coin_ok |-> FALSE, exch_ok |-> FALSE, mkt_ok |-> FALSE,
     store_failed |-> FALSE, open |-> FALSE, answers |-> {}, escaped |-> {}]

\* the class of a call's end, as the cycle remembers it
AnswerClass(r) ==
    IF ~r.sent THEN {}
    ELSE IF r.result.kind = "returned" THEN {"ok"}
    ELSE IF r.result.error = "LCWRateLimitError" THEN {"limited"}
    ELSE {"failed"}

\* the records parsed from a returned body: one from a body, none from an empty one
Records(data) == IF Truthy(data) THEN 1 ELSE 0

\* a variant of the fetch operations whose handlers log the error and raise it
\* again
FetchedPropagating(r) ==
    IF r.result.kind = "returned"
    THEN [records |-> Records(r.result.data), sleep |-> 0, failed |-> FALSE, raises |-> {}]
    ELSE IF r.result.error = "LCWRateLimitError"
    THEN [records |-> 0, sleep |-> BackoffSleep, failed |-> TRUE, raises |-> {r.result.error}]
    ELSE [records |-> 0, sleep |-> 0, failed |-> TRUE, raises |-> {r.result.error}]

\* fetch_specific_coins / fetch_coins_list / fetch_exchanges_list /
\* fetch_market_overview / fetch_coin_history around one client call: the
\* records returned, the seconds slept after a rate-limit error, and the errors
\* raised to the caller: the except clauses (LCWRateLimitError, LCWAPIError,
\* Exception) end in return or continue, so there are none.  check_api_status
\* and get_api_credits do the same with one except clause and without the sleep.
Fetched(r) ==
    IF r.result.kind = "returned"
    THEN [records |-> Records(r.result.data), sleep |-> 0, failed |-> FALSE, raises |-> {}]
    ELSE IF r.result.error = "LCWRateLimitError"
    THEN [records |-> 0, sleep |-> BackoffSleep, failed |-> TRUE, raises |-> {}]
    ELSE [records |-> 0, sleep |-> 0, failed |-> TRUE, raises |-> {}]

\* store_coins / store_exchanges / store_markets as run_full_fetch uses them: n
\* records are stored and counted under field, or the failed write is counted
\* in errors; nothing is written for n = 0
Stored(stats, field, n, write_ok) ==
    IF n = 0 \/ write_ok
    THEN [stats EXCEPT ![field] = @ + n]
    ELSE [stats EXCEPT !.errors = @ + 1]

\* the client's part of a step of the cycle: the call r changes the cache and
\* the breaker, and the fetcher sleeps
ClientStep(r, sleep) ==
    /\ r.breaker.failure_count <= MaxFailures
    /\ cache' = r.cache
    /\ access_order' = r.order
    /\ failure_count' = r.breaker.failure_count
    /\ last_failure_time' = r.breaker.last_failure_time
    /\ state' = r.breaker.state
    /\ now' = now + sleep
    /\ last' = [op |-> "fetch_step"]
    /\ UNCHANGED <<max_size, default_ttl, failure_threshold, timeout, enable_caching,
                   accessed, ops, streak, populated, schedulerVars, raceVars, objectVars>>

\* the client call of the current step, the transport answering outcome
CycleCall(endpoint, payload, outcome) ==
    ClientMakeRequest(enable_caching, cache, access_order, max_size, default_ttl, failure_count, last_failure_time, state, failure_threshold, timeout, endpoint, payload, TRUE, outcome, now)

\* the transport answers only a call that reaches it; pc is the step that calls
FetchTransport(pc, endpoint, payload) ==
    IF cycle.pc # pc THEN {}
    ELSE IF CycleCall(endpoint, payload, NoOutcome).sent THEN FetchOutcomes
    ELSE {NoOutcome}

\* what every step of the cycle remembers of its call
Noted(c, r, st) ==
    [c EXCEPT !.open = c.open /\ st = "open", !.answers = c.answers \cup AnswerClass(r)]

\* the transport's answers to the call for the next tracked coin
CoinTransport ==
    IF cycle.pc = "coin" /\ cycle.i <= Len(TrackedCoins)
    THEN FetchTransport("coin", "coins/single", CoinPayload(TrackedCoins[cycle.i]))
    ELSE {}

\* run_full_fetch() is called
CycleBegins ==
    /\ cycle.pc \in {"idle", "done"}
    /\ cycle.n < MaxCycles
    /\ cycle' = [RestingCycle(cycle.n + 1) EXCEPT !.pc = "status", !.open = (state = "open")]
    /\ last' = [op |-> "cycle_begins"]
    /\ UNCHANGED <<clientVars, schedulerVars, raceVars, objectVars>>

\* check_api_status(): any error of check_status() ends the cycle with one error
CheckStatus(outcome) ==
    /\ cycle.pc = "status"
    /\ \E r \in {CycleCall("status", NoParams, outcome)} :
          /\ ClientStep(r, 0)
          /\ cycle' = LET c == [Noted(cycle, r, r.breaker.state) EXCEPT
                                      !.escaped = @ \cup Fetched(r).raises]
                      IN  IF ~Fetched(r).failed
                          THEN [c EXCEPT !.pc = "credits", !.status_ok = TRUE]
                          ELSE [c EXCEPT !.pc = "done", !.stats.errors = @ + 1]

\* get_api_credits(): advisory, every error is swallowed
GetCredits(outcome) ==
    /\ cycle.pc = "credits"
    /\ \E r \in {CycleCall("credits", NoParams, outcome)} :
          /\ ClientStep(r, 0)
          /\ cycle' = [Noted(cycle, r, r.breaker.state) EXCEPT
                          !.pc = "coin", !.escaped = @ \cup Fetched(r).raises]

\* fetch_specific_coins: the call for the next tracked coin
FetchCoin(outcome) ==
    /\ cycle.pc = "coin"
    /\ cycle.i <= Len(TrackedCoins)
    /\ \E r \in {CycleCall("coins/single", CoinPayload(TrackedCoins[cycle.i]), outcome)} :
          \E f \in {Fetched(r)} :
              /\ ClientStep(r, f.sleep)
              /\ cycle' = [Noted(cycle, r, r.breaker.state) EXCEPT
                              !.i = @ + 1,
                              !.coins = @ + f.records,
                              !.escaped = @ \cup f.raises,
                              !.coin_ok = @ \/ ~f.failed]

\* the tracked coins fetched are stored
StoreCoins(write_ok) ==
    /\ cycle.pc = "coin"
    /\ cycle.i > Len(TrackedCoins)
    /\ cycle.coins = 0 => write_ok
    /\ cycle' = [cycle EXCEPT !.pc = "coins_list",
                              !.stats = Stored([cycle.stats EXCEPT !.coins_fetched = cycle.coins], "coins_stored", cycle.coins, write_ok),
                              !.store_failed = @ \/ ~write_ok,
                              !.open = @ /\ state = "open"]
    /\ last' = [op |-> "store_step"]
    /\ UNCHANGED <<clientVars, schedulerVars, raceVars, objectVars>>

\* one of the three list fetches with its store: the records fetched are
\* counted, then stored
FetchAndStore(pc, next, endpoint, payload, fetched_field, stored_field, ok_field, outcome, write_ok) ==
    /\ cycle.pc = pc
    /\ \E r \in {CycleCall(endpoint, payload, outcome)} :
          \E f \in {Fetched(r)} :
              /\ f.records = 0 => write_ok
              /\ ClientStep(r, f.sleep)
              /\ cycle' = [Noted(cycle, r, r.breaker.state) EXCEPT
                              !.pc = next,
                              !.escaped = @ \cup f.raises,
                              !.stats = Stored([cycle.stats EXCEPT ![fetched_field] = @ + f.records], stored_field, f.records, write_ok),
                              ![ok_field] = @ \/ f.records > 0,
                              !.store_failed = @ \/ ~write_ok]

\* fetch_coins_list(limit=20) and store_coins
FetchTopCoins(outcome, write_ok) ==
    FetchAndStore("coins_list", "exchanges", "coins/list", ListPayload("rank", "ascending", "20", "True"), "coins_fetched", "coins_stored", "coin_ok", outcome, write_ok)

\* fetch_exchanges_list(limit=20) and store_exchanges
FetchExchanges(outcome, write_ok) ==
    FetchAndStore("exchanges", "overview", "exchanges/list", ListPayload("visitors", "descending", "20", "False"), "exchanges_fetched", "exchanges_stored", "exch_ok", outcome, write_ok)

\* fetch_market_overview() and store_markets; run_full_fetch() returns stats
FetchMarkets(outcome, write_ok) ==
    FetchAndStore("overview", "done", "overview", OverviewPayload, "markets_fetched", "markets_stored", "mkt_ok", outcome, write_ok)

InitFetcher ==
    /\ now = ClockStart
    /\ max_size = ApiCacheMaxSize
    /\ default_ttl = DefaultTtl
    /\ cache = EmptyCache
    /\ access_order = << >>
    /\ failure_threshold = ClientFailureThreshold
    /\ timeout = ClientBreakerTimeout
    /\ failure_count = 0
    /\ last_failure_time = NoTime
    /\ state = "closed"
    /\ enable_caching = TRUE
    /\ accessed = EmptyCache
    /\ ops = 0
    /\ streak = NoStreak
    /\ last = NoOp
    /\ populated = EmptyCache
    /\ IdleScheduler
    /\ cycle = RestingCycle(0)
    /\ IdleObjects
    /\ threads = NoThreads

NextFetcher ==
    \/ CycleBegins
    \/ \E outcome \in FetchTransport("status", "status", NoParams) : CheckStatus(outcome)
    \/ \E outcome \in FetchTransport("credits", "credits", NoParams) : GetCredits(outcome)
    \/ \E outcome \in CoinTransport : FetchCoin(outcome)
    \/ \E write_ok \in BOOLEAN : StoreCoins(write_ok)
    \/ \E outcome \in FetchTransport("coins_list", "coins/list", ListPayload("rank", "ascending", "20", "True")), write_ok \in BOOLEAN : FetchTopCoins(outcome, write_ok)
    \/ \E outcome \in FetchTransport("exchanges", "exchanges/list", ListPayload("visitors", "descending", "20", "False")), write_ok \in BOOLEAN : FetchExchanges(outcome, write_ok)
    \/ \E outcome \in FetchTransport("overview", "overview", OverviewPayload), write_ok \in BOOLEAN : FetchMarkets(outcome, write_ok)

SpecFetcher == InitFetcher /\ [][NextFetcher]_vars

\* ------------------------------------------------- claims on the fetch cycle
\* C17: a cycle in which the status check passed, every coin fetch failed, the
\* exchange and the market fetch returned records and every store succeeded
\* returns stats with errors >= 1 and with exchanges_stored and markets_stored
\* above zero.
C17_PartialFailureIsolation ==
    (/\ cycle.pc = "done"
     /\ cycle.status_ok
     /\ ~cycle.coin_ok
     /\ cycle.exch_ok
     /\ cycle.mkt_ok
     /\ ~cycle.store_failed) =>
        /\ cycle.stats.errors >= 1
        /\ cycle.stats.exchanges_stored > 0
        /\ cycle.stats.markets_stored > 0

\* C18: a cycle during all of which the breaker was open, or in which the
\* transport was reached and answered every call with a rate limit, returns
\* stats with errors >= 1, whatever the cache held when the cycle began.
C18_DegradedUpstreamVisible ==
    (/\ cycle.pc = "done"
     /\ (cycle.open \/ cycle.answers = {"limited"})) =>
        cycle.stats.errors >= 1

\* the errors LCWClient raises; a refusal by the open breaker is an LCWAPIError
ClientErrors == {"LCWAuthError", "LCWRateLimitError", "LCWAPIError", "LCWNetworkError"}

\* C22: no fetch operation of DataFetcher raises an error of the API client to
\* its caller: for each of the client's errors (authentication, rate limit, API
\* error, network error, refusal by the open breaker) the operation returns no
\* record and raises nothing, and in every cycle no error has reached
\* run_full_fetch().
C22_FetchFailuresSwallowed ==
    /\ cycle.escaped = {}
    /\ \A e \in ClientErrors, st \in {0, 401, 429, 500, 503} :
           LET f == Fetched([result |-> Raised(e, st)])
           IN  f.raises = {} /\ f.records = 0 /\ f.failed

\* a cycle has ended in which the transport answered calls with a rate limit
\* and with a network failure, and the breaker refused a call
C22_Witness ==
    /\ cycle.pc = "done"
    /\ {"limited", "failed"} \subseteq cycle.answers
    /\ state = "open"
    /\ cycle.escaped = {}

\* --------------------------------------- two job threads on one SimpleCache
\* get/set operations begun in a behaviour of SpecCacheRace
MaxRaceOps == 3

\* the threads of the pool
Threads == 1..MaxWorkers

\* the keys the threads use
RaceKeys == {GenerateKey(CacheKeyParts("status", NoParams)), GenerateKey(CacheKeyParts("coins/single", BtcUsd))}

\* ttl arguments of the threads' set(): the default, and 0
RaceTtls == {NoTtl, 0}

\* a thread between two operations
IdleThread == [pc |-> "idle", op |-> None, key |-> None, ttl |-> NoTtl, lru |-> None, err |-> None]

\* the thread begins operation op on key / moves to pc / ends its operation /
\* dies of the exception err
Begun(op, key, ttl, pc) == [pc |-> pc, op |-> op, key |-> key, ttl |-> ttl, lru |-> None, err |-> None]
At(th, pc) == [th EXCEPT !.pc = pc]
Ended(th) == IdleThread
Failed(th, err) == [th EXCEPT !.pc = "failed", !.err = err]

\* a step of thread t that leaves the cache as it is
ThreadOnly(t, th) ==
    /\ threads' = [threads EXCEPT ![t] = th]
    /\ last' = [op |-> "thread_step"]
    /\ UNCHANGED <<clientVars, schedulerVars, fetcherVars>>

\* a step of thread t that changes the entries to c and the access order to o
ThreadShared(t, th, c, o) ==
    /\ threads' = [threads EXCEPT ![t] = th]
    /\ cache' = c
    /\ access_order' = o
    /\ last' = [op |-> "thread_step"]
    /\ UNCHANGED <<now, max_size, default_ttl, breakerVars, enable_caching, accessed,
                   ops, streak, populated, schedulerVars, fetcherVars>>

\* get(key_parts) is called: the key is computed and the sweep runs if it is due
CallGet(t, key) ==
    /\ threads[t].pc = "idle"
    /\ ops < MaxRaceOps
    /\ ops' = ops + 1
    /\ threads' = [threads EXCEPT ![t] = Begun("get", key, NoTtl, "get_lookup")]
    /\ \E swept \in {IF SweepDue(cache, now) THEN CleanupExpired(cache, access_order, now) ELSE [cache |-> cache, order |-> access_order, cleaned |-> {}]} :
          /\ cache' = swept.cache
          /\ access_order' = swept.order
    /\ last' = [op |-> "thread_step"]
    /\ UNCHANGED <<now, max_size, default_ttl, breakerVars, enable_caching, accessed,
                   streak, populated, schedulerVars, fetcherVars>>

\* if key not in self._cache: return None
GetLookup(t) ==
    /\ threads[t].pc = "get_lookup"
    /\ ThreadOnly(t, IF threads[t].key \in DOMAIN cache THEN At(threads[t], "get_read")
                     ELSE Ended(threads[t]))

\* entry = self._cache[key]; if entry.is_expired
GetRead(t) ==
    /\ threads[t].pc = "get_read"
    /\ ThreadOnly(t, IF threads[t].key \notin DOMAIN cache THEN Failed(threads[t], "KeyError")
                     ELSE IF IsExpired(cache[threads[t].key], now) THEN At(threads[t], "get_drop")
                     ELSE At(threads[t], "touch_check"))

\* del self._cache[key], the entry being expired
GetDrop(t) ==
    /\ threads[t].pc = "get_drop"
    /\ IF threads[t].key \in DOMAIN cache
       THEN ThreadShared(t, At(threads[t], "drop_check"), Del(cache, threads[t].key), access_order)
       ELSE ThreadOnly(t, Failed(threads[t], "KeyError"))

\* if key in self._access_order, after the expired entry was deleted
DropCheck(t) ==
    /\ threads[t].pc = "drop_check"
    /\ ThreadOnly(t, IF InSeq(access_order, threads[t].key) THEN At(threads[t], "drop_remove")
                     ELSE Ended(threads[t]))

\* self._access_order.remove(key); return None
DropRemove(t) ==
    /\ threads[t].pc = "drop_remove"
    /\ IF InSeq(access_order, threads[t].key)
       THEN ThreadShared(t, Ended(threads[t]), cache, ListRemove(access_order, threads[t].key))
       ELSE ThreadOnly(t, Failed(threads[t], "ValueError"))

\* if key in self._access_order, in get and in set
TouchCheck(t) ==
    /\ threads[t].pc = "touch_check"
    /\ ThreadOnly(t, IF InSeq(access_order, threads[t].key) THEN At(threads[t], "touch_remove")
                     ELSE At(threads[t], "touch_append"))

\* self._access_order.remove(key)
TouchRemove(t) ==
    /\ threads[t].pc = "touch_remove"
    /\ IF InSeq(access_order, threads[t].key)
       THEN ThreadShared(t, At(threads[t], "touch_append"), cache, ListRemove(access_order, threads[t].key))
       ELSE ThreadOnly(t, Failed(threads[t], "ValueError"))

\* self._access_order.append(key); the operation returns
TouchAppend(t) ==
    /\ threads[t].pc = "touch_append"
    /\ ThreadShared(t, Ended(threads[t]), cache, Append(access_order, threads[t].key))

\* set(key_parts, value, ttl) is called: if len(self._cache) >= self.max_size
CallSet(t, key, ttl) ==
    /\ threads[t].pc = "idle"
    /\ ops < MaxRaceOps
    /\ ops' = ops + 1
    /\ threads' = [threads EXCEPT ![t] = Begun("set", key, ttl, IF Cardinality(DOMAIN cache) >= max_size THEN "evict_check" ELSE "set_store")]
    /\ last' = [op |-> "thread_step"]
    /\ UNCHANGED <<now, cacheVars, breakerVars, enable_caching, accessed, streak,
                   populated, schedulerVars, fetcherVars>>

\* _evict_lru: if not self._access_order: return
EvictCheck(t) ==
    /\ threads[t].pc = "evict_check"
    /\ ThreadOnly(t, IF access_order = << >> THEN At(threads[t], "set_store")
                     ELSE At(threads[t], "evict_pop"))

\* lru_key = self._access_order.pop(0)
EvictPop(t) ==
    /\ threads[t].pc = "evict_pop"
    /\ IF access_order # << >>
       THEN ThreadShared(t, [threads[t] EXCEPT !.pc = "evict_in", !.lru = Head(access_order)], cache, Tail(access_order))
       ELSE ThreadOnly(t, Failed(threads[t], "IndexError"))

\* if lru_key in self._cache
EvictIn(t) ==
    /\ threads[t].pc = "evict_in"
    /\ ThreadOnly(t, IF threads[t].lru \in DOMAIN cache THEN At(threads[t], "evict_del")
                     ELSE At(threads[t], "set_store"))

\* del self._cache[lru_key]
EvictDel(t) ==
    /\ threads[t].pc = "evict_del"
    /\ IF threads[t].lru \in DOMAIN cache
       THEN ThreadShared(t, At(threads[t], "set_store"), Del(cache, threads[t].lru), access_order)
       ELSE ThreadOnly(t, Failed(threads[t], "KeyError"))

\* self._cache[key] = entry
SetStore(t) ==
    /\ threads[t].pc = "set_store"
    /\ ThreadShared(t, At(threads[t], "touch_check"),
                    (threads[t].key :> [data |-> "v1", expires_at |-> now + (IF threads[t].ttl = NoTtl THEN default_ttl ELSE threads[t].ttl)]) @@ cache,
                    access_order)

\* time passes under the threads
RaceTick ==
    /\ now + Granularity <= MaxTime
    /\ now' = now + Granularity
    /\ last' = [op |-> "tick"]
    /\ UNCHANGED <<cacheVars, breakerVars, enable_caching, accessed, ops, streak,
                   populated, schedulerVars, fetcherVars, raceVars>>

InitCacheRace ==
    /\ now = ClockStart
    /\ max_size \in 1..MaxCapacity
    /\ default_ttl = DefaultTtl
    /\ cache = EmptyCache
    /\ access_order = << >>
    /\ failure_threshold = ClientFailureThreshold
    /\ timeout = ClientBreakerTimeout
    /\ failure_count = 0
    /\ last_failure_time = NoTime
    /\ state = "closed"
    /\ enable_caching = TRUE
    /\ accessed = EmptyCache
    /\ ops = 0
    /\ streak = NoStreak
    /\ last = NoOp
    /\ populated = EmptyCache
    /\ IdleScheduler
    /\ cycle = NoCycle
    /\ IdleObjects
    /\ threads = [t \in Threads |-> IdleThread]

NextCacheRace ==
    \/ \E t \in Threads, key \in RaceKeys : CallGet(t, key)
    \/ \E t \in Threads : GetLookup(t)
    \/ \E t \in Threads : GetRead(t)
    \/ \E t \in Threads : GetDrop(t)
    \/ \E t \in Threads : DropCheck(t)
    \/ \E t \in Threads : DropRemove(t)
    \/ \E t \in Threads : TouchCheck(t)
    \/ \E t \in Threads : TouchRemove(t)
    \/ \E t \in Threads : TouchAppend(t)
    \/ \E t \in Threads, key \in RaceKeys, ttl \in RaceTtls : CallSet(t, key, ttl)
    \/ \E t \in Threads : EvictCheck(t)
    \/ \E t \in Threads : EvictPop(t)
    \/ \E t \in Threads : EvictIn(t)
    \/ \E t \in Threads : EvictDel(t)
    \/ \E t \in Threads : SetStore(t)
    \/ RaceTick

SpecCacheRace == InitCacheRace /\ [][NextCacheRace]_vars

\* ------------------------------------------- claims on the concurrent cache
\* every operation begun has returned
AllReturned == \A t \in Threads : threads[t].pc = "idle"

\* C19: whatever the interleaving of the get and set operations of two job
\* threads, no operation ends in an internal error, and once every operation
\* has returned the cache holds at most max_size entries and the access order
\* lists exactly the stored keys, each once.
C19_CacheSafeUnderConcurrency ==
    /\ \A t \in Threads : threads[t].pc # "failed"
    /\ AllReturned =>
          /\ Cardinality(StoredKeys) <= max_size
          /\ StoredKeys = OrderKeys
          /\ Len(access_order) = Cardinality(OrderKeys)

\* ------------------------------------ two job threads on one CircuitBreaker
\* a thread between two calls of the breaker: the count it has loaded, and its
\* history of completed record_failure and begun record_success calls
IdleCaller == [pc |-> "idle", loaded |-> 0, failures |-> 0, successes |-> 0]

\* a step of thread t on the breaker: c, lft and st are the new count, last
\* failure time and state
BreakerStep(t, th, c, lft, st) ==
    /\ threads' = [threads EXCEPT ![t] = th]
    /\ failure_count' = c
    /\ last_failure_time' = lft
    /\ state' = st
    /\ last' = [op |-> "thread_step"]
    /\ UNCHANGED <<now, cacheVars, failure_threshold, timeout, enable_caching, accessed,
                   streak, populated, schedulerVars, fetcherVars>>

\* record_failure() is called; self.failure_count += 1 loads the count
CallRecordFailure(t) ==
    /\ threads[t].pc = "idle"
    /\ ops < MaxRaceOps
    /\ ops' = ops + 1
    /\ BreakerStep(t, [threads[t] EXCEPT !.pc = "rf_store", !.loaded = failure_count],
                   failure_count, last_failure_time, state)

\* self.failure_count += 1 stores the count it loaded, plus one
FailureStore(t) ==
    /\ threads[t].pc = "rf_store"
    /\ BreakerStep(t, At(threads[t], "rf_stamp"), threads[t].loaded + 1,
                   last_failure_time, state)
    /\ UNCHANGED ops

\* self.last_failure_time = time.time()
FailureStamp(t) ==
    /\ threads[t].pc = "rf_stamp"
    /\ BreakerStep(t, At(threads[t], "rf_check"), failure_count, now, state)
    /\ UNCHANGED ops

\* if self.failure_count >= self.failure_threshold, else record_failure returns
FailureCheck(t) ==
    /\ threads[t].pc = "rf_check"
    /\ BreakerStep(t, IF failure_count >= failure_threshold THEN At(threads[t], "rf_open")
                      ELSE [threads[t] EXCEPT !.pc = "idle", !.failures = @ + 1],
                   failure_count, last_failure_time, state)
    /\ UNCHANGED ops

\* self.state = OPEN; record_failure returns
FailureOpen(t) ==
    /\ threads[t].pc = "rf_open"
    /\ BreakerStep(t, [threads[t] EXCEPT !.pc = "idle", !.failures = @ + 1],
                   failure_count, last_failure_time, "open")
    /\ UNCHANGED ops

\* record_success() is called: self.failure_count = 0
CallRecordSuccess(t) ==
    /\ threads[t].pc = "idle"
    /\ ops < MaxRaceOps
    /\ ops' = ops + 1
    /\ BreakerStep(t, [threads[t] EXCEPT !.pc = "rs_close", !.successes = @ + 1],
                   BreakerRecordSuccess.failure_count, last_failure_time, state)

\* self.state = CLOSED; record_success returns
SuccessClose(t) ==
    /\ threads[t].pc = "rs_close"
    /\ BreakerStep(t, At(threads[t], "idle"), failure_count, last_failure_time,
                   BreakerRecordSuccess.state)
    /\ UNCHANGED ops

\* can_execute() is called: if self.state == CLOSED: return True
CallCanExecute(t) ==
    /\ threads[t].pc = "idle"
    /\ ops < MaxRaceOps
    /\ ops' = ops + 1
    /\ BreakerStep(t, IF state = "closed" THEN threads[t] ELSE At(threads[t], "ce_open"),
                   failure_count, last_failure_time, state)

\* elif self.state == OPEN, else (half open) return True
CanExecuteOpen(t) ==
    /\ threads[t].pc = "ce_open"
    /\ BreakerStep(t, IF state = "open" THEN At(threads[t], "ce_elapsed")
                      ELSE At(threads[t], "idle"),
                   failure_count, last_failure_time, state)
    /\ UNCHANGED ops

\* if time.time() - self.last_failure_time > self.timeout, else return False
CanExecuteElapsed(t) ==
    /\ threads[t].pc = "ce_elapsed"
    /\ BreakerStep(t, IF now - last_failure_time > timeout THEN At(threads[t], "ce_half")
                      ELSE At(threads[t], "idle"),
                   failure_count, last_failure_time, state)
    /\ UNCHANGED ops

\* self.state = HALF_OPEN; return True
CanExecuteHalf(t) ==
    /\ threads[t].pc = "ce_half"
    /\ BreakerStep(t, At(threads[t], "idle"), failure_count, last_failure_time,
                   "half_open")
    /\ UNCHANGED ops

InitBreakerRace ==
    /\ now = ClockStart
    /\ max_size = ApiCacheMaxSize
    /\ default_ttl = DefaultTtl
    /\ cache = EmptyCache
    /\ access_order = << >>
    /\ failure_threshold \in 1..MaxThreshold
    /\ timeout = ClientBreakerTimeout
    /\ failure_count = 0
    /\ last_failure_time = NoTime
    /\ state = "closed"
    /\ enable_caching = TRUE
    /\ accessed = EmptyCache
    /\ ops = 0
    /\ streak = NoStreak
    /\ last = NoOp
    /\ populated = EmptyCache
    /\ IdleScheduler
    /\ cycle = NoCycle
    /\ IdleObjects
    /\ threads = [t \in Threads |-> IdleCaller]

NextBreakerRace ==
    \/ \E t \in Threads : CallRecordFailure(t)
    \/ \E t \in Threads : FailureStore(t)
    \/ \E t \in Threads : FailureStamp(t)
    \/ \E t \in Threads : FailureCheck(t)
    \/ \E t \in Threads : FailureOpen(t)
    \/ \E t \in Threads : CallRecordSuccess(t)
    \/ \E t \in Threads : SuccessClose(t)
    \/ \E t \in Threads : CallCanExecute(t)
    \/ \E t \in Threads : CanExecuteOpen(t)
    \/ \E t \in Threads : CanExecuteElapsed(t)
    \/ \E t \in Threads : CanExecuteHalf(t)
    \/ RaceTick

SpecBreakerRace == InitBreakerRace /\ [][NextBreakerRace]_vars

\* ----------------------------------------- claims on the concurrent breaker
\* record_failure calls that have returned, record_success calls begun
FailuresRecorded == threads[1].failures + threads[2].failures
SuccessesBegun == threads[1].successes + threads[2].successes

\* C20: whatever the interleaving of the breaker calls of two job threads, once
\* k record_failure() calls have returned, no call being under way and no
\* record_success() having been made, the failure count is k and, if k has
\* reached failure_threshold, the breaker has left the closed state.
C20_NoFailureLost ==
    (AllReturned /\ SuccessesBegun = 0) =>
        /\ failure_count = FailuresRecorded
        /\ FailuresRecorded >= failure_threshold => state # "closed"

\* ------------------------------------- several LCWClient instances, one cache
\* LCWClient instances in a behaviour of SpecClients
MaxClients == 2
\* requests each instance makes
MaxAsked == 2

ClientIds == 1..MaxClients

\* LCWClient.__init__: a breaker of its own (5 failures, 60 s); api_cache is the
\* module's.  fetched and asked are history: the keys whose response this
\* instance got from the transport, and the requests it made
NewClient ==
    [failure_count |-> 0, last_failure_time |-> NoTime, state |-> "closed",
     fetched |-> {}, asked |-> 0]

\* instance c calls _make_request(endpoint, payload): the lookup goes to the
\* module-level api_cache, the gate and the accounting to c's own breaker
ClientRequest(c, endpoint, payload) ==
    /\ clients[c].asked < MaxAsked
    /\ \E outcome \in Outcomes \cup {NoOutcome} :
        \E r \in {ClientMakeRequest(TRUE, cache, access_order, max_size, default_ttl,
                                    clients[c].failure_count, clients[c].last_failure_time,
                                    clients[c].state, ClientFailureThreshold,
                                    ClientBreakerTimeout, endpoint, payload, TRUE,
                                    outcome, now)},
           key \in {GenerateKey(CacheKeyParts(endpoint, payload))} :
            /\ r.sent <=> outcome # NoOutcome
            /\ cache' = r.cache
            /\ access_order' = r.order
            /\ clients' = [clients EXCEPT ![c] =
                              [failure_count |-> r.breaker.failure_count,
                               last_failure_time |-> r.breaker.last_failure_time,
                               state |-> r.breaker.state,
                               fetched |-> IF r.sent /\ r.result.kind = "returned"
                                           THEN @.fetched \cup {key} ELSE @.fetched,
                               asked |-> @.asked + 1]]
            /\ last' = [op |-> "client_request", client |-> c, key |-> key, at |-> now,
                        sent |-> r.sent, cache_hit |-> r.cache_hit, result |-> r.result,
                        fetched_before |-> clients[c].fetched]
    /\ UNCHANGED <<now, max_size, default_ttl, breakerVars, enable_caching, accessed, ops,
                   streak, populated, schedulerVars, cycle, fetcher, raceVars>>

InitClients ==
    /\ now = ClockStart
    /\ max_size = ApiCacheMaxSize
    /\ default_ttl = DefaultTtl
    /\ cache = EmptyCache
    /\ access_order = << >>
    /\ failure_threshold = ClientFailureThreshold
    /\ timeout = ClientBreakerTimeout
    /\ failure_count = 0
    /\ last_failure_time = NoTime
    /\ state = "closed"
    /\ enable_caching = TRUE
    /\ accessed = EmptyCache
    /\ ops = 0
    /\ streak = NoStreak
    /\ last = NoOp
    /\ populated = EmptyCache
    /\ IdleScheduler
    /\ cycle = NoCycle
    /\ threads = NoThreads
    /\ fetcher = [pc |-> "none"]
    /\ clients = [c \in ClientIds |-> NewClient]

NextClients ==
    \/ \E c \in ClientIds, call \in ClientCalls : ClientRequest(c, call[1], call[2])
    \/ Tick

SpecClients == InitClients /\ [][NextClients]_vars

\* ------------------------------------------- claims on the client instances
\* C23: a request of one LCWClient instance is answered only by the transport
\* or from a response that this instance fetched itself: a request that is
\* served from the cache is for a key whose response the same instance got from
\* the transport before.  (So N instances making the same request once each,
\* the transport succeeding, invoke the transport N times.)
C23_PerClientTransportCalls ==
    (last.op = "client_request" /\ last.cache_hit) => last.key \in last.fetched_before

\* ------------------------------------- one DataFetcher under the job threads
\* self._client = None: no handle
NoHandle == 0

\* REQUESTS_PER_MINUTE settings tried: request intervals of 60 s and 30 s
RequestsPerMinute == {1, 2}

\* DataFetcher.__init__ with InfluxDBClient.__init__: nothing connected, the
\* session open, _last_request_time = 0 (the epoch, further back than any
\* request interval).  made counts the BaseInfluxDBClient objects constructed,
\* open holds those not closed, starts is the history of the API calls' starts
NewFetcher(rpm) ==
    [pc |-> "made", request_interval |-> 60 \div rpm, last_request_time |-> ClockStart - 60,
     session_open |-> TRUE, client |-> NoHandle, write_api |-> NoHandle,
     query_api |-> NoHandle, made |-> 0, open |-> {}, starts |-> << >>]

\* a job thread between two operations on the fetcher; err is how its last
\* store ended
IdleJob == [pc |-> "idle", err |-> None, wake |-> 0]

\* InfluxDBClient.connect(): the construction raises and nothing is assigned, or
\* the three handles are assigned and the health check raises, or it returns
DbConnect(f, outcome) ==
    IF outcome = "construction_fails" THEN f
    ELSE [f EXCEPT !.made = @ + 1, !.open = @ \cup {f.made + 1},
                   !.client = f.made + 1, !.write_api = f.made + 1,
                   !.query_api = f.made + 1]

\* InfluxDBClient.disconnect(): the write API and the client are closed if set,
\* and the three references cleared
DbDisconnect(f) ==
    [f EXCEPT !.open = @ \ {f.write_api, f.client},
              !.write_api = NoHandle, !.query_api = NoHandle, !.client = NoHandle]

\* a step on the fetcher by the main thread (t = 0) or by job thread t
FetcherStep(t, th, f, op) ==
    /\ fetcher' = f
    /\ threads' = IF t = 0 THEN threads ELSE [threads EXCEPT ![t] = th]
    /\ last' = op
    /\ UNCHANGED <<clientVars, schedulerVars, cycle, clients>>

\* DataFetcher.connect(): db_client.connect(), its error logged and raised again
Connect(outcome) ==
    /\ fetcher.made < MaxRaceOps
    /\ FetcherStep(0, IdleJob, DbConnect(fetcher, outcome),
                   [op |-> "connect", raised |-> outcome # "ok"])

\* DataFetcher.close(): the session is closed; db_client.disconnect() is called
\* only if db_client has an attribute 'close', and InfluxDBClient has none
Close ==
    /\ FetcherStep(0, IdleJob, [fetcher EXCEPT !.session_open = FALSE], [op |-> "close"])

\* store_coins / store_exchanges / store_markets with records to store: with
\* self.db_client enters by connect(); if it raises, the store returns False
StoreEnters(t, outcome) ==
    /\ threads[t].pc = "idle"
    /\ fetcher.made < MaxRaceOps
    /\ FetcherStep(t, IF outcome = "ok" THEN [threads[t] EXCEPT !.pc = "write", !.err = None]
                      ELSE [threads[t] EXCEPT !.err = "connect"],
                   DbConnect(fetcher, outcome), [op |-> "store_enters"])

\* db.write_coins(...): RuntimeError if self._write_api is not set, else the
\* points are written; either way __exit__ follows
StoreWrites(t) ==
    /\ threads[t].pc = "write"
    /\ FetcherStep(t, [threads[t] EXCEPT !.pc = "exit",
                          !.err = IF fetcher.write_api = NoHandle THEN "not_connected"
                                  ELSE None],
                   fetcher, [op |-> "store_writes"])

\* __exit__: disconnect(); the store returns True, or False after an error
StoreExits(t) ==
    /\ threads[t].pc = "exit"
    /\ FetcherStep(t, [threads[t] EXCEPT !.pc = "idle"], DbDisconnect(fetcher),
                   [op |-> "store_exits"])

\* _rate_limit() is called before an API call: elapsed is computed and, if it is
\* below the interval, the thread goes to sleep for the rest of it
RateLimitReads(t) ==
    /\ threads[t].pc = "idle"
    /\ Len(fetcher.starts) + Cardinality({u \in Threads : threads[u].pc \in {"sleep", "stamp"}}) < MaxRaceOps
    /\ \E elapsed \in {now - fetcher.last_request_time} :
          FetcherStep(t, IF elapsed < fetcher.request_interval
                         THEN [threads[t] EXCEPT !.pc = "sleep",
                                  !.wake = now + (fetcher.request_interval - elapsed)]
                         ELSE [threads[t] EXCEPT !.pc = "stamp"],
                      fetcher, [op |-> "rate_limit_reads"])

\* the sleep, if any, is over: self._last_request_time = time.time(), and the
\* API call starts
RateLimitStamps(t) ==
    /\ \/ threads[t].pc = "stamp"
       \/ threads[t].pc = "sleep" /\ now >= threads[t].wake
    /\ FetcherStep(t, [threads[t] EXCEPT !.pc = "idle"],
                   [fetcher EXCEPT !.last_request_time = now, !.starts = Append(@, now)],
                   [op |-> "rate_limit_stamps"])

InitFetcherObject ==
    /\ now = ClockStart
    /\ max_size = ApiCacheMaxSize
    /\ default_ttl = DefaultTtl
    /\ cache = EmptyCache
    /\ access_order = << >>
    /\ failure_threshold = ClientFailureThreshold
    /\ timeout = ClientBreakerTimeout
    /\ failure_count = 0
    /\ last_failure_time = NoTime
    /\ state = "closed"
    /\ enable_caching = TRUE
    /\ accessed = EmptyCache
    /\ ops = 0
    /\ streak = NoStreak
    /\ last = NoOp
    /\ populated = EmptyCache
    /\ IdleScheduler
    /\ cycle = NoCycle
    /\ clients = << >>
    /\ \E rpm \in RequestsPerMinute : fetcher = NewFetcher(rpm)
    /\ threads = [t \in Threads |-> IdleJob]

NextFetcherObject ==
    \/ \E outcome \in {"ok", "construction_fails", "health_check_fails"} : Connect(outcome)
    \/ Close
    \/ \E t \in Threads, outcome \in {"ok", "construction_fails", "health_check_fails"} : StoreEnters(t, outcome)
    \/ \E t \in Threads : StoreWrites(t)
    \/ \E t \in Threads : StoreExits(t)
    \/ \E t \in Threads : RateLimitReads(t)
    \/ \E t \in Threads : RateLimitStamps(t)
    \/ RaceTick

SpecFetcherObject == InitFetcherObject /\ [][NextFetcherObject]_vars

\* ------------------------------------------- claims on the DataFetcher object
\* C21: when job handlers store concurrently, no store is made to fail by the
\* connect or disconnect of another: no write finds the client not connected
\* after its own connect succeeded.
C21_NoCrossJobInterference ==
    \A t \in Threads : threads[t].err # "not_connected"

\* the references of the database client are all cleared
DbCleared ==
    /\ fetcher.client = NoHandle
    /\ fetcher.write_api = NoHandle
    /\ fetcher.query_api = NoHandle

\* C27: when DataFetcher.close() has returned, the HTTP session is closed and
\* the database client is disconnected: its client, write and query handles are
\* cleared and none is left open, also when connect() was called before.
C27_CloseClosesAll ==
    last.op = "close" => (~fetcher.session_open /\ DbCleared /\ fetcher.open = {})

\* C28: when connect() has raised, by a failed construction or a failed health
\* check, the client, write and query handles are all unset (so that a write
\* raises 'InfluxDB client not connected') and no handle is left open.
C28_FailedConnectUnconnected ==
    (last.op = "connect" /\ last.raised) => (DbCleared /\ fetcher.open = {})

\* C29: any two API calls through one DataFetcher start at least
\* request_interval apart, also when two job threads issue them.
C29_MinimumSpacing ==
    \A i, j \in 1..Len(fetcher.starts) :
        i < j => fetcher.starts[j] - fetcher.starts[i] >= fetcher.request_interval

====
